---- MODULE Spec2Model ----
(***************************************************************************)
(* Model of the OVN service driver of networking-bgpvpn:                   *)
(*   helper.py  OvnProviderHelper  (request queue, worker thread, handlers)*)
(*   ovn.py     OvnBGPVPNDriver    (precommit hooks, registry callbacks)   *)
(* The Neutron database (ports, BGPVPNs, router associations) and the OVN  *)
(* Northbound database (Logical_Switch_Port rows and their external_ids)   *)
(* are the environment the driver reads and writes.                        *)
(***************************************************************************)
EXTENDS Integers, Sequences, FiniteSets, TLC

\* ------------------------------------------------------------------ bounds
MaxRequests == 3      \* requests ever put on the queue
MaxTopo == 1          \* port attach / detach events

\* ------------------------------------------------------- constants.py etc.
REQ_TYPE_EXIT == "exit"
REQ_TYPE_CREATE_ROUTER_ASSOC == "create_router_assoc"
REQ_TYPE_DELETE_ROUTER_ASSOC == "delete_router_assoc"
REQ_TYPE_ADD_ROUTER_INTERFACE == "add_router_interface"
\* a supported list that also lets l2 through
OVN_SUPPORTED_BGPVPN_TYPES_with_l2 == {"l3", "l2"}
OVN_SUPPORTED_BGPVPN_TYPES == {"l3"}
OVN_EVPN_VNI_EXT_ID_KEY == "neutron_bgpvpn:vni"
OVN_EVPN_AS_EXT_ID_KEY == "neutron_bgpvpn:as"

\* keys the ML2/OVN driver keeps on a Logical_Switch_Port row
NEUTRON_DEVICE_OWNER_KEY == "neutron:device_owner"

DEVICE_OWNER_ROUTER_INTF == "network:router_interface"
DEVICE_OWNER_ROUTER_GW == "network:router_gateway"
DEVICE_OWNER_HA_INTF == "network:router_ha_interface"
\* neutron_lib.constants.ROUTER_PORT_OWNERS, restricted to the owners used
ROUTER_PORT_OWNERS == {DEVICE_OWNER_ROUTER_INTF, DEVICE_OWNER_ROUTER_GW}

\* Python None as the value of an integer attribute
None == -1

Routers == {"r1", "r2"}
Ports == {"p1", "p2", "p3", "p4", "p5", "p6"}
\* the order in which a port listing returns rows
PortOrder == <<"p1", "p2", "p3", "p4", "p5", "p6">>
\* device_id and device_owner of each port, once it is created:
\* r1 has two interfaces (p1, p2) and an HA port (p4); r2 has two
\* interfaces (p3, p6) and a gateway port (p5)
PortDevice(p) == IF p \in {"p3", "p5", "p6"} THEN "r2" ELSE "r1"
PortOwner(p) ==
  CASE p = "p5" -> DEVICE_OWNER_ROUTER_GW
    [] p = "p4" -> DEVICE_OWNER_HA_INTF
    [] OTHER -> DEVICE_OWNER_ROUTER_INTF
Bgpvpns == {"b1", "b2"}

\* cfg.CONF.ovn.bgp_as
bgp_as == 64512

\* the 'vni' attribute of each BGPVPN (optional in the API: b2 has none)
BgpvpnVni(b) == IF b = "b1" THEN 1001 ELSE None

\* ---------------------------------------------------------------- str()
Digit(d) ==
  CASE d = 0 -> "0" [] d = 1 -> "1" [] d = 2 -> "2" [] d = 3 -> "3"
    [] d = 4 -> "4" [] d = 5 -> "5" [] d = 6 -> "6" [] d = 7 -> "7"
    [] d = 8 -> "8" [] d = 9 -> "9"

RECURSIVE Decimal(_)
Decimal(n) == IF n < 10 THEN Digit(n) ELSE Decimal(n \div 10) \o Digit(n % 10)

\* Python str() of an int or of None
str(v) == IF v = None THEN "None" ELSE Decimal(v)

\* ------------------------------------------------------------------ state
VARIABLES
  requests,     \* helper._requests: the FIFO queue
  pc,           \* position of the worker thread in _request_handler
  cur,          \* the request the worker is handling and its locals
  conn,         \* helper.ovn_nbdb / ovn_nbdb_api: "none", "open", "closed"
  sd,           \* position of the caller of shutdown()
  ports,        \* the Neutron ports (and Logical_Switch_Port rows)
  ext_ids,      \* NB Logical_Switch_Port.external_ids of each port
  assocs,       \* committed router associations
  bgpvpns,      \* committed BGPVPNs
  pending,      \* API transactions between precommit and commit
  notifs,       \* registry notifications published and not yet handled
  enq,          \* history: every request put on the queue, in order
  started,      \* history: seq of the requests whose handler started
  finished,     \* history: <<seq, outcome>> of the handlers that ended
  accessors,    \* history: <<thread, seq>> that are using the store now
  ntopo,        \* number of topology events so far
  api,          \* the last precommit validation called and its outcome
  cb_log        \* the exceptions raised in registry callbacks, and their fate

vars == <<requests, pc, cur, conn, sd, ports, ext_ids, assocs,
          bgpvpns, pending, notifs, enq, started, finished, accessors, ntopo, api,
          cb_log>>

\* ---------------------------------------------------------------- helpers
EmptyMap == [k \in {} |-> ""]

RouterAssoc(b, r) == [id |-> <<b, r>>, router_id |-> r, bgpvpn_id |-> b]
\* the router associations the API callers ask for: b1 with both routers,
\* r2 with both BGPVPNs
AllAssocs ==
  {RouterAssoc(b, r) : b \in Bgpvpns, r \in Routers} \ {RouterAssoc("b2", "r1")}

\* the BGPVPN dict returned by get_bgpvpn / get_bgpvpns
BgpvpnDict(b) == [id |-> b, vni |-> BgpvpnVni(b)]

\* info fields a request type does not carry
NoAssoc == [id |-> <<"", "">>, router_id |-> "", bgpvpn_id |-> ""]
NoBgpvpn == [id |-> "", vni |-> None]
NoPort == ""

\* seq is the position of the request in the history enq (set by Put)
Request(type, router_association, bgpvpn, port_id) ==
  [type |-> type, seq |-> 0,
   info |-> [router_association |-> router_association, bgpvpn |-> bgpvpn,
             port_id |-> port_id]]

NoReq == Request("none", NoAssoc, NoBgpvpn, NoPort)
NoCur == [req |-> NoReq, router_ports |-> <<>>, port_ids |-> <<>>]

RECURSIVE SeqOfSet(_, _)
\* the members of S, in the order of the sequence order
SeqOfSet(order, S) ==
  IF order = <<>> THEN <<>>
  ELSE IF Head(order) \in S THEN <<Head(order)>> \o SeqOfSet(Tail(order), S)
       ELSE SeqOfSet(Tail(order), S)

Range(s) == {s[i] : i \in 1..Len(s)}

\* ----------------------------------------------------- the queue (helper)
\* a put that adds at the head of the queue
add_request_lifo(q, req) == <<req>> \o q

\* add_request: self._requests.put(req)
add_request(q, req) == Append(q, req)

RECURSIVE PutAll(_, _, _)
\* the queue after add_request of each of reqs, each stamped with its seq
PutAll(q, n, reqs) ==
  IF reqs = <<>> THEN q
  ELSE PutAll(add_request(q, [Head(reqs) EXCEPT !.seq = n + 1]),
              n + 1, Tail(reqs))

RECURSIVE StampAll(_, _)
StampAll(n, reqs) ==
  IF reqs = <<>> THEN <<>>
  ELSE <<[Head(reqs) EXCEPT !.seq = n + 1]>> \o StampAll(n + 1, Tail(reqs))

\* a producer puts reqs on the queue
Put(reqs) ==
  /\ Len(enq) + Len(reqs) <= MaxRequests
  /\ requests' = PutAll(requests, Len(enq), reqs)
  /\ enq' = enq \o StampAll(Len(enq), reqs)

\* ------------------------------------------------ NB store (ovsdbapp API)
\* external_ids of the row ML2/OVN creates for a new port
NewLsp(p) == [k \in {NEUTRON_DEVICE_OWNER_KEY} |-> PortOwner(p)]

LspExists(p) == p \in ports

\* a set that appends each value to the value the key already has
db_set_append(ext, p, vals) ==
  [ext EXCEPT ![p] = [k \in (DOMAIN ext[p]) \cup (DOMAIN vals) |->
                        IF k \notin DOMAIN vals THEN ext[p][k]
                        ELSE IF k \in DOMAIN ext[p] THEN ext[p][k] \o vals[k]
                        ELSE vals[k]]]

\* a set that replaces the whole map by the dict
db_set_replace(ext, p, vals) == [ext EXCEPT ![p] = vals]

\* db_set(table, record, (column, dict)): the dict is merged into the map
db_set(ext, p, vals) ==
  [ext EXCEPT ![p] = [k \in (DOMAIN ext[p]) \cup (DOMAIN vals) |->
                        IF k \in DOMAIN vals THEN vals[k] ELSE ext[p][k]]]

\* db_remove(table, record, column, key): the key is deleted from the map
db_remove(ext, p, key) ==
  [ext EXCEPT ![p] = [k \in (DOMAIN ext[p]) \ {key} |-> ext[p][k]]]

RunCommand(ext, c) ==
  IF c.op = "db_set" THEN db_set(ext, c.record, c.val)
  ELSE db_remove(ext, c.record, c.key)

RECURSIVE RunCommands(_, _)
RunCommands(ext, commands) ==
  IF commands = <<>> THEN ext
  ELSE RunCommands(RunCommand(ext, Head(commands)), Tail(commands))

\* the transaction commits iff the connection is up and every record it
\* names still exists (a stale row handle makes the store reject it)
TxnOk(commands) ==
  /\ conn = "open"
  /\ \A i \in 1..Len(commands) : LspExists(commands[i].record)

RECURSIVE RunUntilFailure(_, _)
RunUntilFailure(ext, commands) ==
  IF commands = <<>> THEN ext
  ELSE IF conn = "open" /\ LspExists(Head(commands).record)
       THEN RunUntilFailure(RunCommand(ext, Head(commands)), Tail(commands))
       ELSE ext

\* every command executed on its own, up to the first that fails
_execute_commands_each(ext, commands) == RunUntilFailure(ext, commands)

\* _execute_commands: one transaction, all of the commands or none
_execute_commands(ext, commands) ==
  IF TxnOk(commands) THEN RunCommands(ext, commands) ELSE ext

\* ------------------------------------------------------- handlers (helper)
\* annotations that carry the id of the BGPVPN in the place of its VNI
external_ids_by_id(bgpvpn) ==
  [k \in {OVN_EVPN_VNI_EXT_ID_KEY, OVN_EVPN_AS_EXT_ID_KEY} |->
     IF k = OVN_EVPN_VNI_EXT_ID_KEY THEN bgpvpn.id ELSE str(bgp_as)]

\* external_ids built by create_router_assoc and add_router_interface
external_ids(bgpvpn) ==
  [k \in {OVN_EVPN_VNI_EXT_ID_KEY, OVN_EVPN_AS_EXT_ID_KEY} |->
     IF k = OVN_EVPN_VNI_EXT_ID_KEY THEN str(bgpvpn.vni) ELSE str(bgp_as)]

\* directory.get_plugin().get_ports(context, filters)
get_ports(router_id) ==
  SeqOfSet(PortOrder, {p \in ports : /\ PortDevice(p) = router_id
                                     /\ PortOwner(p) \in ROUTER_PORT_OWNERS})

\* the ports a handler looks up with lsp_get
LookupTargets(c) ==
  IF c.req.type = REQ_TYPE_ADD_ROUTER_INTERFACE THEN <<c.req.info.port_id>>
  ELSE c.router_ports

\* lsp_get(...).execute(check_error=True) of every target succeeds
LookupOk(targets) ==
  targets = <<>> \/ (conn = "open" /\ \A i \in 1..Len(targets) :
                                         LspExists(targets[i]))

DbSetCmd(p, vals) == [op |-> "db_set", record |-> p, val |-> vals, key |-> ""]
DbRemoveCmd(p, key) ==
  [op |-> "db_remove", record |-> p, val |-> EmptyMap, key |-> key]

\* the commands create_router_assoc builds from port_ids
create_router_assoc(info, port_ids) ==
  [i \in 1..Len(port_ids) |-> DbSetCmd(port_ids[i], external_ids(info.bgpvpn))]

\* a delete that removes both annotations
delete_router_assoc_both_keys(info, port_ids) ==
  [i \in 1..2 * Len(port_ids) |->
     DbRemoveCmd(port_ids[(i + 1) \div 2],
                 IF i % 2 = 1 THEN OVN_EVPN_VNI_EXT_ID_KEY
                 ELSE OVN_EVPN_AS_EXT_ID_KEY)]

\* a delete that removes the AS key in the place of the VNI key
delete_router_assoc_as_key(info, port_ids) ==
  [i \in 1..Len(port_ids) |-> DbRemoveCmd(port_ids[i], OVN_EVPN_AS_EXT_ID_KEY)]

\* the commands delete_router_assoc builds from port_ids
delete_router_assoc(info, port_ids) ==
  [i \in 1..Len(port_ids) |-> DbRemoveCmd(port_ids[i], OVN_EVPN_VNI_EXT_ID_KEY)]

\* an interface addition that annotates every port of the router of the
\* new port
add_router_interface_fanout(info, port_ids) ==
  LET all == SeqOfSet(PortOrder,
                      {p \in ports : \E i \in 1..Len(port_ids) :
                                       PortDevice(p) = PortDevice(port_ids[i])})
  IN  [i \in 1..Len(all) |-> DbSetCmd(all[i], external_ids(info.bgpvpn))]

\* the db_set add_router_interface executes on the port it looked up
add_router_interface(info, port_ids) ==
  [i \in 1..Len(port_ids) |-> DbSetCmd(port_ids[i], external_ids(info.bgpvpn))]

\* _bgpvpn_request_func_maps.get(request_type)
Commands(c) ==
  CASE c.req.type = REQ_TYPE_CREATE_ROUTER_ASSOC ->
         create_router_assoc(c.req.info, c.port_ids)
    [] c.req.type = REQ_TYPE_DELETE_ROUTER_ASSOC ->
         delete_router_assoc(c.req.info, c.port_ids)
    [] c.req.type = REQ_TYPE_ADD_ROUTER_INTERFACE ->
         add_router_interface(c.req.info, c.port_ids)
    [] OTHER -> <<>>

\* a loop that lets the exception of a handler end the thread
HandlerEndsRaising(outcome) ==
  /\ pc' = IF outcome = "failed" THEN "stopped" ELSE "get"
  /\ cur' = NoCur
  /\ finished' = Append(finished, <<cur.req.seq, outcome>>)
  /\ accessors' = accessors \ {<<"worker", cur.req.seq>>}
  /\ started' = started

\* the handler ends: task_done() on success, LOG.exception on failure;
\* either way the loop goes back to self._requests.get()
HandlerEnds(outcome) ==
  /\ pc' = "get"
  /\ cur' = NoCur
  /\ finished' = Append(finished, <<cur.req.seq, outcome>>)
  /\ accessors' = accessors \ {<<"worker", cur.req.seq>>}
  /\ started' = started

\* a loop that skips the exit request and goes on
WorkerGet_continue ==
  /\ pc = "get"
  /\ requests # <<>>
  /\ LET request == Head(requests) IN
       /\ requests' = Tail(requests)
       /\ IF request.type = REQ_TYPE_EXIT
          THEN UNCHANGED <<pc, cur, started, accessors>>
          ELSE /\ pc' = IF request.type = REQ_TYPE_ADD_ROUTER_INTERFACE
                        THEN "lsp_get" ELSE "get_ports"
               /\ cur' = [NoCur EXCEPT !.req = request]
               /\ started' = Append(started, request.seq)
               /\ accessors' = accessors \cup {<<"worker", request.seq>>}
  /\ UNCHANGED <<api, cb_log, conn, sd, ports, ext_ids, assocs, bgpvpns,
                 pending, notifs, enq, finished, ntopo>>

\* request = self._requests.get(); exit breaks the loop
WorkerGet ==
  /\ pc = "get"
  /\ requests # <<>>
  /\ LET request == Head(requests) IN
       /\ requests' = Tail(requests)
       /\ IF request.type = REQ_TYPE_EXIT
          THEN /\ pc' = "stopped"
               /\ UNCHANGED <<api, cb_log, cur, started, accessors>>
          ELSE /\ pc' = IF request.type = REQ_TYPE_ADD_ROUTER_INTERFACE
                        THEN "lsp_get" ELSE "get_ports"
               /\ cur' = [NoCur EXCEPT !.req = request]
               /\ started' = Append(started, request.seq)
               /\ accessors' = accessors \cup {<<"worker", request.seq>>}
  /\ UNCHANGED <<api, cb_log, conn, sd, ports, ext_ids, assocs, bgpvpns,
                 pending, notifs, enq, finished, ntopo>>

\* create/delete_router_assoc: router_ports = get_ports(...)
HandlerGetPorts ==
  /\ pc = "get_ports"
  /\ cur' = [cur EXCEPT
               !.router_ports = get_ports(cur.req.info.router_association.router_id)]
  /\ pc' = "lsp_get"
  /\ UNCHANGED <<api, cb_log, requests, conn, sd, ports, ext_ids, assocs,
                 bgpvpns, pending, notifs, enq, started, finished, accessors,
                 ntopo>>

\* the lsp_get lookups of the handler
HandlerLspGet ==
  /\ pc = "lsp_get"
  /\ IF LookupOk(LookupTargets(cur))
     THEN /\ cur' = [cur EXCEPT !.port_ids = LookupTargets(cur)]
          /\ pc' = "execute"
          /\ UNCHANGED <<api, cb_log, started, finished, accessors>>
     ELSE HandlerEnds("failed")
  /\ UNCHANGED <<api, cb_log, requests, conn, sd, ports, ext_ids, assocs,
                 bgpvpns, pending, notifs, enq, ntopo>>

\* _execute_commands(commands) / db_set(...).execute(check_error=True)
HandlerExecute ==
  /\ pc = "execute"
  /\ ext_ids' = _execute_commands(ext_ids, Commands(cur))
  /\ HandlerEnds(IF TxnOk(Commands(cur)) THEN "ok" ELSE "failed")
  /\ UNCHANGED <<api, cb_log, requests, conn, sd, ports, assocs, bgpvpns,
                 pending, notifs, enq, ntopo>>

_request_handler ==
  WorkerGet \/ HandlerGetPorts \/ HandlerLspGet \/ HandlerExecute

\* ------------------------------------------------- helper life cycle
\* _post_fork_initialize: the NB connection is opened after process fork
_post_fork_initialize ==
  /\ conn = "none"
  /\ conn' = "open"
  /\ UNCHANGED <<api, cb_log, requests, pc, cur, sd, ports, ext_ids, assocs,
                 bgpvpns, pending, notifs, enq, started, finished, accessors,
                 ntopo>>

\* shutdown, line 1: self._requests.put({'type': REQ_TYPE_EXIT})
shutdown_put ==
  /\ sd = "idle"
  /\ Put(<<Request(REQ_TYPE_EXIT, NoAssoc, NoBgpvpn, NoPort)>>)
  /\ sd' = "join"
  /\ UNCHANGED <<api, cb_log, pc, cur, conn, ports, ext_ids, assocs,
                 bgpvpns, pending, notifs, started, finished, accessors,
                 ntopo>>

\* a shutdown that does not wait for the worker
JoinReturnsAtOnce == TRUE

\* may the caller of shutdown go past self._helper_thread.join()
JoinReturns == pc = "stopped"

\* shutdown, line 2: self._helper_thread.join()
shutdown_join ==
  /\ sd = "join"
  /\ JoinReturns
  /\ sd' = "stop"
  /\ UNCHANGED <<api, cb_log, requests, pc, cur, conn, ports, ext_ids,
                 assocs, bgpvpns, pending, notifs, enq, started, finished,
                 accessors, ntopo>>

\* shutdown, lines 3-4: self.ovn_nbdb.stop(); del self.ovn_nbdb_api
\* (AttributeError when _post_fork_initialize never ran)
shutdown_stop ==
  /\ sd = "stop"
  /\ IF conn = "open" THEN conn' = "closed" /\ sd' = "done"
     ELSE conn' = conn /\ sd' = "error"
  /\ UNCHANGED <<api, cb_log, requests, pc, cur, ports, ext_ids, assocs,
                 bgpvpns, pending, notifs, enq, started, finished, accessors,
                 ntopo>>

\* ------------------------------------------------- Neutron / BGPVPN DB
\* a lookup that ignores its router filter
get_bgpvpns_unfiltered(router_id) ==
  {b \in bgpvpns : \E a \in assocs : a.bgpvpn_id = b}

\* get_bgpvpns(context, filters={'routers': [router_id]}): the committed
\* BGPVPNs that have a committed association with the router
get_bgpvpns(router_id) ==
  {b \in bgpvpns : RouterAssoc(b, router_id) \in assocs}

\* get_router_assocs(context, bgpvpn_id): the associations of the BGPVPN
get_router_assocs(bgpvpn_id) == {a \in assocs : a.bgpvpn_id = bgpvpn_id}

\* the BGPVPNs and associations an API transaction in flight has locked
Busy(b) == \E t \in pending : t.bgpvpn = b

\* every ordering of the members of S as a sequence
Orderings(S) ==
  {s \in [1..Cardinality(S) -> S] : \A i, j \in 1..Cardinality(S) :
                                      i # j => s[i] # s[j]}

\* ------------------------------------------------- driver (ovn.py)
\* the request create_router_assoc_precommit builds
CreateRouterAssocRequest(router_assoc) ==
  Request(REQ_TYPE_CREATE_ROUTER_ASSOC, router_assoc,
          BgpvpnDict(router_assoc.bgpvpn_id), NoPort)

\* the request delete_router_assoc_precommit builds
DeleteRouterAssocRequest(router_assoc) ==
  Request(REQ_TYPE_DELETE_ROUTER_ASSOC, router_assoc, NoBgpvpn, NoPort)

\* the request registry_router_interface_created builds
AddRouterInterfaceRequest(port_id, b) ==
  Request(REQ_TYPE_ADD_ROUTER_INTERFACE, NoAssoc, BgpvpnDict(b), port_id)

\* create_router_assoc_precommit, called inside the API transaction that
\* adds the association; the transaction commits later (Commit)
create_router_assoc_precommit(b, r) ==
  /\ b \in bgpvpns
  /\ RouterAssoc(b, r) \in AllAssocs \ assocs
  /\ ~Busy(b)
  /\ Put(<<CreateRouterAssocRequest(RouterAssoc(b, r))>>)
  /\ pending' = pending \cup {[op |-> "create_router_assoc", bgpvpn |-> b,
                                assoc |-> RouterAssoc(b, r)]}
  /\ UNCHANGED <<api, cb_log, pc, cur, conn, sd, ports, ext_ids, assocs,
                 bgpvpns, notifs, started, finished, accessors, ntopo>>

\* delete_router_assoc_precommit, called inside the API transaction that
\* deletes the association
delete_router_assoc_precommit(a) ==
  /\ a \in assocs
  /\ ~Busy(a.bgpvpn_id)
  /\ Put(<<DeleteRouterAssocRequest(a)>>)
  /\ pending' = pending \cup {[op |-> "delete_router_assoc",
                                bgpvpn |-> a.bgpvpn_id, assoc |-> a]}
  /\ UNCHANGED <<api, cb_log, pc, cur, conn, sd, ports, ext_ids, assocs,
                 bgpvpns, notifs, started, finished, accessors, ntopo>>

\* BGPVPNDriver.delete_router_assoc (driver_api): deletes the association
\* row in the caller's transaction and calls delete_router_assoc_precommit
driver_delete_router_assoc(a) == <<DeleteRouterAssocRequest(a)>>

\* a cascade that stops after the first association
CascadeFirstOnly(router_assocs) ==
  IF router_assocs = <<>> THEN <<>>
  ELSE driver_delete_router_assoc(Head(router_assocs))

RECURSIVE CascadeRequests(_)
\* the loop of delete_bgpvpn_precommit over router_assocs
CascadeRequests(router_assocs) ==
  IF router_assocs = <<>> THEN <<>>
  ELSE driver_delete_router_assoc(Head(router_assocs))
         \o CascadeRequests(Tail(router_assocs))

\* delete_bgpvpn_precommit, called inside the transaction that deletes
\* the BGPVPN
delete_bgpvpn_precommit(b) ==
  /\ b \in bgpvpns
  /\ ~Busy(b)
  /\ \E router_assocs \in Orderings(get_router_assocs(b)) :
       Put(CascadeRequests(router_assocs))
  /\ pending' = pending \cup {[op |-> "delete_bgpvpn", bgpvpn |-> b,
                                assoc |-> NoAssoc]}
  /\ UNCHANGED <<api, cb_log, pc, cur, conn, sd, ports, ext_ids, assocs,
                 bgpvpns, notifs, started, finished, accessors, ntopo>>

\* the API transaction t commits: its change becomes visible to the
\* lookups of the other threads
Commit(t) ==
  /\ t \in pending
  /\ pending' = pending \ {t}
  /\ assocs' = CASE t.op = "create_router_assoc" -> assocs \cup {t.assoc}
                 [] t.op = "delete_router_assoc" -> assocs \ {t.assoc}
                 [] t.op = "delete_bgpvpn" ->
                      assocs \ get_router_assocs(t.bgpvpn)
                 [] OTHER -> assocs
  /\ bgpvpns' = CASE t.op = "delete_bgpvpn" -> bgpvpns \ {t.bgpvpn}
                  [] t.op = "create_bgpvpn" -> bgpvpns \cup {t.bgpvpn}
                  [] OTHER -> bgpvpns
  /\ UNCHANGED <<api, cb_log, requests, pc, cur, conn, sd, ports, ext_ids,
                 notifs, enq, started, finished, accessors, ntopo>>

\* ------------------------------------------- ovn.py: request validation
\* Python values of the attributes of a BGPVPN request: None, a list (of
\* which only the length matters here) or an integer
PyNone == [kind |-> "none", n |-> 0]
PyList(n) == [kind |-> "list", n |-> n]
PyInt(i) == [kind |-> "int", n |-> i]

\* the truth value Python gives v in "if v:": None, the empty list and
\* the integer 0 are false
Truthy(v) ==
  CASE v.kind = "list" -> v.n > 0
    [] v.kind = "int" -> v.n # 0
    [] OTHER -> FALSE

\* the result of a validation that raises nothing
NoError == ""

\* the id the API gives a BGPVPN that is being created
NewBgpvpnId == "b3"

\* the BGPVPN dicts the API layer hands to the driver: the list attributes
\* default to the empty list, local_pref to None
BgpvpnRequests(id) ==
  [id : {id},
   type : {"l3", "l2"},
   route_distinguishers : {PyList(0), PyList(1)},
   route_targets : {PyList(0), PyList(1)},
   import_targets : {PyList(0), PyList(1)},
   export_targets : {PyList(0), PyList(1)},
   local_pref : {PyNone, PyInt(0), PyInt(100)}]

\* a BGPVPN as it is stored when the request set none of the attributes
StoredBgpvpn(id) ==
  [id |-> id, type |-> "l3",
   route_distinguishers |-> PyList(0), route_targets |-> PyList(0),
   import_targets |-> PyList(0), export_targets |-> PyList(0),
   local_pref |-> PyNone]

\* api before any validation was called
NoCall == [op |-> "none", bgpvpn |-> StoredBgpvpn(""), network_id |-> "",
           error |-> NoError]

\* _common_precommit_checks: the exception it raises, or NoError
_common_precommit_checks(bgpvpn) ==
  IF Truthy(bgpvpn.route_distinguishers) THEN "BGPVPNRDNotSupported"
  ELSE IF Truthy(bgpvpn.route_targets) THEN "BGPVPNRTNotSupported"
  ELSE IF Truthy(bgpvpn.import_targets) THEN "BGPVPNITNotSupported"
  ELSE IF Truthy(bgpvpn.export_targets) THEN "BGPVPNETNotSupported"
  ELSE IF Truthy(bgpvpn.local_pref) THEN "BGPVPNLocalPrefNotSupported"
  ELSE IF bgpvpn.type \notin OVN_SUPPORTED_BGPVPN_TYPES
       THEN "BGPVPNTypeNotSupported"
  ELSE NoError

\* the API transaction around a precommit hook: an exception of the hook
\* rolls it back, otherwise it stays open until it commits
Transaction(op, bgpvpn_id, error) ==
  IF error = NoError
  THEN {[op |-> op, bgpvpn |-> bgpvpn_id, assoc |-> NoAssoc]}
  ELSE {}

\* create_bgpvpn_precommit, called inside the transaction that creates
\* the BGPVPN
create_bgpvpn_precommit(bgpvpn) ==
  /\ pending = {}
  /\ bgpvpn.id \notin bgpvpns
  /\ LET error == _common_precommit_checks(bgpvpn) IN
       /\ api' = [op |-> "create_bgpvpn", bgpvpn |-> bgpvpn,
                  network_id |-> "", error |-> error]
       /\ pending' = pending \cup Transaction("create_bgpvpn", bgpvpn.id,
                                              error)
  /\ UNCHANGED <<cb_log, requests, pc, cur, conn, sd, ports, ext_ids, assocs,
                 bgpvpns, notifs, enq, started, finished, accessors, ntopo>>

\* update_bgpvpn_precommit, called inside the transaction that updates
\* the BGPVPN; bgpvpn is the BGPVPN as it will be after the update
update_bgpvpn_precommit(old_bgpvpn, bgpvpn) ==
  /\ pending = {}
  /\ old_bgpvpn.id \in bgpvpns
  /\ bgpvpn.id = old_bgpvpn.id
  /\ LET error == _common_precommit_checks(bgpvpn) IN
       /\ api' = [op |-> "update_bgpvpn", bgpvpn |-> bgpvpn,
                  network_id |-> "", error |-> error]
       /\ pending' = pending \cup Transaction("update_bgpvpn", bgpvpn.id,
                                              error)
  /\ UNCHANGED <<cb_log, requests, pc, cur, conn, sd, ports, ext_ids, assocs,
                 bgpvpns, notifs, enq, started, finished, accessors, ntopo>>

\* the networks, and those of them with a row in externalnetworks
Networks == {"n1", "n2"}
ExternalNetworks == {"n2"}

\* a lookup that finds no network external
network_is_external_never(net_id) == FALSE

\* network_is_external: .one() finds the row of an external network and
\* raises NoResultFound for any other
network_is_external(net_id) == net_id \in ExternalNetworks

\* create_net_assoc_precommit, called inside the transaction that creates
\* the network association
create_net_assoc_precommit(net_assoc) ==
  /\ pending = {}
  /\ net_assoc.bgpvpn_id \in bgpvpns
  /\ LET error == IF network_is_external(net_assoc.network_id)
                  THEN "BGPVPNExternalNetAssociation" ELSE NoError IN
       /\ api' = [op |-> "create_net_assoc",
                  bgpvpn |-> StoredBgpvpn(net_assoc.bgpvpn_id),
                  network_id |-> net_assoc.network_id, error |-> error]
       /\ pending' = pending \cup Transaction("create_net_assoc",
                                              net_assoc.bgpvpn_id, error)
  /\ UNCHANGED <<cb_log, requests, pc, cur, conn, sd, ports, ext_ids, assocs,
                 bgpvpns, notifs, enq, started, finished, accessors, ntopo>>

\* ------------------------------------------------- topology (Neutron L3)
\* bgpvpn is the local bgpvpns[0] of the callback that is handling the
\* notification ("" until its lookup)
Notification(resource, r, p) ==
  [resource |-> resource, router_id |-> r, port_id |-> p, bgpvpn |-> ""]

\* a port of the router is created (with its Logical_Switch_Port row) and
\* the AFTER_CREATE event of its resource is published
AttachPort(p) ==
  /\ ntopo < MaxTopo
  /\ p \notin ports
  /\ \A n \in notifs : n.port_id # p
  /\ ports' = ports \cup {p}
  /\ ext_ids' = [ext_ids EXCEPT ![p] = NewLsp(p)]
  /\ notifs' = CASE PortOwner(p) = DEVICE_OWNER_ROUTER_INTF ->
                      notifs \cup {Notification("router_interface",
                                                PortDevice(p), p)}
                 [] PortOwner(p) = DEVICE_OWNER_ROUTER_GW ->
                      notifs \cup {Notification("router_gateway",
                                                PortDevice(p), p)}
                 [] OTHER -> notifs
  /\ ntopo' = ntopo + 1
  /\ UNCHANGED <<api, cb_log, requests, pc, cur, conn, sd, assocs, bgpvpns, pending, enq,
                 started, finished, accessors>>

\* a port is deleted, and its Logical_Switch_Port row with it
DetachPort(p) ==
  /\ ntopo < MaxTopo
  /\ p \in ports
  /\ ports' = ports \ {p}
  /\ ext_ids' = [ext_ids EXCEPT ![p] = EmptyMap]
  /\ ntopo' = ntopo + 1
  /\ UNCHANGED <<api, cb_log, requests, pc, cur, conn, sd, assocs, bgpvpns, pending,
                 notifs, enq, started, finished, accessors>>

\* a callback that annotates the port itself, on the thread of the notifier
registry_router_interface_created_direct(n) ==
  /\ n \in notifs
  /\ n.resource = "router_interface"
  /\ notifs' = notifs \ {n}
  /\ IF get_bgpvpns(n.router_id) = {}
     THEN UNCHANGED ext_ids
     ELSE \E b \in get_bgpvpns(n.router_id) :
            ext_ids' = _execute_commands(ext_ids,
                         <<DbSetCmd(n.port_id, external_ids(BgpvpnDict(b)))>>)
  /\ UNCHANGED <<api, cb_log, requests, enq, pc, cur, conn, sd, ports, assocs,
                 bgpvpns, pending, started, finished, accessors, ntopo>>

\* registry_router_interface_created(ROUTER_INTERFACE, AFTER_CREATE)
registry_router_interface_created(n) ==
  /\ n \in notifs
  /\ n.resource = "router_interface"
  /\ notifs' = notifs \ {n}
  /\ IF get_bgpvpns(n.router_id) = {}
     THEN UNCHANGED <<api, cb_log, requests, enq>>
     ELSE \E b \in get_bgpvpns(n.router_id) :
            Put(<<AddRouterInterfaceRequest(n.port_id, b)>>)
  /\ UNCHANGED <<api, cb_log, pc, cur, conn, sd, ports, ext_ids, assocs,
                 bgpvpns, pending, started, finished, accessors, ntopo>>

\* get_router_assocs(context, bgpvpn_id, filters={'routers': [router_id]}):
\* the associations of the BGPVPN with the router
get_router_assocs_filtered(bgpvpn_id, router_id) ==
  {a \in get_router_assocs(bgpvpn_id) : a.router_id = router_id}

\* a callback that annotates the gateway port only
registry_router_gateway_crated_single(n) ==
  /\ n \in notifs
  /\ n.resource = "router_gateway"
  /\ n.bgpvpn = ""
  /\ notifs' = notifs \ {n}
  /\ IF get_bgpvpns(n.router_id) = {}
     THEN UNCHANGED <<requests, enq>>
     ELSE \E b \in get_bgpvpns(n.router_id) :
            Put(<<AddRouterInterfaceRequest(n.port_id, b)>>)
  /\ UNCHANGED <<api, cb_log, pc, cur, conn, sd, ports, ext_ids, assocs,
                 bgpvpns, pending, started, finished, accessors, ntopo>>

\* registry_router_gateway_crated(ROUTER_GATEWAY, AFTER_CREATE), up to
\* "if not bgpvpns: return": the lookup of the BGPVPNs of the router
registry_router_gateway_crated(n) ==
  /\ n \in notifs
  /\ n.resource = "router_gateway"
  /\ n.bgpvpn = ""
  /\ IF get_bgpvpns(n.router_id) = {}
     THEN notifs' = notifs \ {n}
     ELSE \E b \in get_bgpvpns(n.router_id) :
            notifs' = (notifs \ {n}) \cup {[n EXCEPT !.bgpvpn = b]}
  /\ UNCHANGED <<api, cb_log, requests, enq, pc, cur, conn, sd, ports,
                 ext_ids, assocs, bgpvpns, pending, started, finished,
                 accessors, ntopo>>

\* an except clause that lets the exception go on to the notifier
CallbackException_raised(n, e) ==
  [resource |-> n.resource, router_id |-> n.router_id, exc |-> e,
   fate |-> "raised"]

\* except Exception as e: _log_callback_processing_exception(...): the
\* exception is logged and the callback returns
CallbackException(n, e) ==
  [resource |-> n.resource, router_id |-> n.router_id, exc |-> e,
   fate |-> "logged"]

\* registry_router_gateway_crated, from the lookup of the associations on:
\* the lookup is a database read of its own, after that of the BGPVPNs;
\* when it returns nothing, router_assocs[0] raises IndexError
registry_router_gateway_crated_assocs(n) ==
  /\ n \in notifs
  /\ n.resource = "router_gateway"
  /\ n.bgpvpn # ""
  /\ notifs' = notifs \ {n}
  /\ LET router_assocs == get_router_assocs_filtered(n.bgpvpn, n.router_id)
     IN  IF router_assocs = {}
         THEN /\ cb_log' = cb_log \cup {CallbackException(n, "IndexError")}
              /\ UNCHANGED <<requests, enq>>
         ELSE /\ \E router_assoc \in router_assocs :
                   Put(<<[CreateRouterAssocRequest(router_assoc) EXCEPT
                            !.info.bgpvpn = BgpvpnDict(n.bgpvpn)]>>)
              /\ UNCHANGED cb_log
  /\ UNCHANGED <<api, pc, cur, conn, sd, ports, ext_ids, assocs,
                 bgpvpns, pending, started, finished, accessors, ntopo>>

\* ------------------------------------------------------- specification
\* The driver starts on a database that already has content: the ports of
\* router r1 exist and BGPVPN b1 is associated with r1, whose interfaces
\* carry the annotations of b1; router r2 has one interface, p6, and no
\* association.
InitPorts == {"p1", "p2", "p4", "p6"}
InitAssocs == {RouterAssoc("b1", "r1")}

Init ==
  /\ requests = <<>>
  /\ pc = "get"
  /\ cur = NoCur
  /\ conn = "none"
  /\ sd = "idle"
  /\ ports = InitPorts
  /\ ext_ids = [p \in Ports |->
                  IF p \notin InitPorts THEN EmptyMap
                  ELSE IF \E a \in InitAssocs : a.router_id = PortDevice(p)
                            /\ PortOwner(p) \in ROUTER_PORT_OWNERS
                       THEN db_set([q \in Ports |-> NewLsp(p)], p,
                                   external_ids(BgpvpnDict("b1")))[p]
                       ELSE NewLsp(p)]
  /\ assocs = InitAssocs
  /\ bgpvpns = Bgpvpns
  /\ pending = {}
  /\ notifs = {}
  /\ enq = <<>>
  /\ started = <<>>
  /\ finished = <<>>
  /\ accessors = {}
  /\ ntopo = 0
  /\ api = NoCall
  /\ cb_log = {}

Next ==
  \/ WorkerGet
  \/ HandlerGetPorts
  \/ HandlerLspGet
  \/ HandlerExecute
  \/ _post_fork_initialize
  \/ shutdown_put
  \/ shutdown_join
  \/ shutdown_stop
  \/ \E b \in Bgpvpns, r \in Routers : create_router_assoc_precommit(b, r)
  \/ \E a \in AllAssocs : delete_router_assoc_precommit(a)
  \/ \E b \in Bgpvpns : delete_bgpvpn_precommit(b)
  \/ \E t \in pending : Commit(t)
  \/ \E p \in Ports : AttachPort(p)
  \/ \E p \in Ports : DetachPort(p)
  \/ \E n \in notifs : registry_router_interface_created(n)
  \/ \E n \in notifs : registry_router_gateway_crated(n)
  \/ \E n \in notifs : registry_router_gateway_crated_assocs(n)

Spec == Init /\ [][Next]_vars

\* The validations of the API requests on their own: each transaction is
\* validated in precommit and, when the hook raised nothing, commits.
ApiNext ==
  \/ \E bgpvpn \in BgpvpnRequests(NewBgpvpnId) :
       create_bgpvpn_precommit(bgpvpn)
  \/ \E b \in Bgpvpns : \E bgpvpn \in BgpvpnRequests(b) :
       update_bgpvpn_precommit(StoredBgpvpn(b), bgpvpn)
  \/ \E b \in Bgpvpns, n \in Networks :
       create_net_assoc_precommit([bgpvpn_id |-> b, network_id |-> n])
  \/ \E t \in pending : Commit(t)

ApiSpec == Init /\ [][ApiNext]_vars

\* the worker is a thread of its own: it takes its next step whenever it
\* has one (a request to get, or a handler to go on with)
FairSpec == Spec /\ WF_vars(_request_handler)

\* ------------------------------------------------------------ properties
HandlerPcs == {"get_ports", "lsp_get", "execute"}

\* position in enq of the exit sentinel (0: shutdown has not put it yet)
ExitPos ==
  IF \E i \in 1..Len(enq) : enq[i].type = REQ_TYPE_EXIT
  THEN CHOOSE i \in 1..Len(enq) : enq[i].type = REQ_TYPE_EXIT
  ELSE 0

\* request k was put on the queue before the exit sentinel
BeforeExit(k) == k \in 1..Len(enq) /\ (ExitPos = 0 \/ k < ExitPos)

HasStarted(k) == \E i \in 1..Len(started) : started[i] = k
HasFinished(k) == \E i \in 1..Len(finished) : finished[i][1] = k
HasFailed(k) == \E i \in 1..Len(finished) : finished[i] = <<k, "failed">>
HasSucceeded(k) == \E i \in 1..Len(finished) : finished[i] = <<k, "ok">>

\* C1: the worker invokes the handlers in the order of the add_request
\* calls: the i-th handler to start is that of the i-th request put on the
\* queue, and a handler starts only when the handlers of all the earlier
\* requests have ended (with success or with failure).
C1_HandlersRunInEnqueueOrder ==
  /\ \A i \in 1..Len(started) : started[i] = i /\ BeforeExit(i)
  /\ \A i \in 1..Len(finished) : finished[i][1] = started[i]
  /\ Len(finished) <= Len(started)
  /\ Len(started) <= Len(finished) + 1
  /\ (Len(started) = Len(finished) + 1) <=> (pc \in HandlerPcs)

C1_Witness ==
  /\ Len(finished) = 3
  /\ enq[1].type # enq[2].type
  /\ \E i \in 1..3 : finished[i][2] = "failed"
  /\ \E i \in 1..3 : finished[i][2] = "ok"

\* C2: when the handler of a request B fails, the worker loop goes on:
\* every request C put on the queue after B and before the exit sentinel
\* still gets its handler invoked.
C2_FailureDoesNotStopTheLoop ==
  \A c \in 2..MaxRequests :
    ((\E b \in 1..(c - 1) : HasFailed(b)) /\ BeforeExit(c)) ~> HasStarted(c)

C2_Witness ==
  \E b \in 1..MaxRequests : \E c \in 1..MaxRequests :
    b < c /\ HasFailed(b) /\ BeforeExit(c) /\ HasSucceeded(c)

\* C3: shutdown drains before it closes: when the store connection is
\* closed, the handler of every request put on the queue before the exit
\* sentinel has ended, and the worker has left its loop, so that it issues
\* no store call on the closed connection.
C3_ShutdownDrainsBeforeClose ==
  conn = "closed" =>
    /\ pc = "stopped"
    /\ accessors = {}
    /\ ExitPos > 0
    /\ \A k \in 1..Len(enq) : k < ExitPos => HasFinished(k)

C3_Witness ==
  /\ conn = "closed"
  /\ ExitPos = 3
  /\ HasSucceeded(1)
  /\ HasFinished(2)

\* the port carries both annotations
Tagged(p) ==
  {OVN_EVPN_VNI_EXT_ID_KEY, OVN_EVPN_AS_EXT_ID_KEY} \subseteq DOMAIN ext_ids[p]

RouterPorts(r) ==
  {p \in ports : PortDevice(p) = r /\ PortOwner(p) \in ROUTER_PORT_OWNERS}

\* nothing is in flight: the queue is drained, the worker is idle, every
\* API transaction is committed and every notification is handled
Quiescent ==
  /\ requests = <<>>
  /\ pc = "get"
  /\ pending = {}
  /\ notifs = {}

NoHandlerFailed == \A i \in 1..Len(finished) : finished[i][2] = "ok"

\* the only requests so far are router-association creates made by
\* create_router_assoc_precommit and interface additions
OnlyCreatesAndInterfaces ==
  /\ \A i \in 1..Len(enq) :
       enq[i].type \in {REQ_TYPE_CREATE_ROUTER_ASSOC,
                        REQ_TYPE_ADD_ROUTER_INTERFACE}
  /\ \A p \in ports : PortOwner(p) # DEVICE_OWNER_ROUTER_GW

\* C4: after any interleaving of a router-association create (precommit
\* enqueue, then commit) with router-interface-attached notifications for
\* the same router, once the queue is drained and no handler failed, every
\* router-owned port of the associated router carries both annotations.
C4_NoInterfaceLeftUntagged ==
  (Quiescent /\ NoHandlerFailed /\ OnlyCreatesAndInterfaces) =>
    \A a \in assocs : \A p \in RouterPorts(a.router_id) : Tagged(p)

\* C5: at most one command uses the store at a time, and it is the command
\* the single worker has dequeued: the annotations of a port change only in
\* the execute step of the handler the worker is running, never in a step
\* of a producer (precommit hook, notification callback).
C5_OnlyTheWorkerTouchesTheStore ==
  [][/\ Cardinality(accessors') <= 1
     /\ (\E p \in ports \cap ports' : ext_ids'[p] # ext_ids[p]) =>
          /\ pc = "execute"
          /\ pc' = "get"
          /\ accessors = {<<"worker", cur.req.seq>>}
          /\ HasStarted(cur.req.seq)
          /\ finished' = Append(finished, <<cur.req.seq, "ok">>)]_vars

C5_Witness ==
  /\ pc = "execute"
  /\ TxnOk(Commands(cur))
  /\ Len(Commands(cur)) > 0
  /\ requests # <<>>
  /\ notifs # {}
  /\ pending # {}

RouterAssocTypes ==
  {REQ_TYPE_CREATE_ROUTER_ASSOC, REQ_TYPE_DELETE_ROUTER_ASSOC}

\* C6: when a create or delete router-association command fails (a port
\* lookup fails or the store rejects the transaction) the annotations of no
\* port change and the command is not put back on the queue; the command
\* changes annotations only in the step in which it succeeds.
C6_FailedCommandChangesNothing ==
  [][(pc \in HandlerPcs /\ pc' # pc /\ cur.req.type \in RouterAssocTypes) =>
       /\ (finished' = Append(finished, <<cur.req.seq, "failed">>) =>
             /\ ext_ids' = ext_ids
             /\ requests' = requests
             /\ enq' = enq)
       /\ (ext_ids' # ext_ids =>
             finished' = Append(finished, <<cur.req.seq, "ok">>))]_vars

\* the worker is about to commit a transaction of two commands that the
\* store rejects, one of the two rows being still there
C6_Witness ==
  /\ pc = "execute"
  /\ cur.req.type \in RouterAssocTypes
  /\ conn = "open"
  /\ Len(cur.port_ids) = 2
  /\ LspExists(cur.port_ids[1])
  /\ ~LspExists(cur.port_ids[2])

\* C7: a createRouterAssociation command that succeeds leaves exactly the
\* router-owned ports of its router (the ports the handler listed) with the
\* VNI annotation equal to str() of the VNI of the BGPVPN snapshot of the
\* command and the AS annotation equal to str() of the configured AS
\* number; the annotations of every other port are unchanged.
C7_CreateTagsExactlyTheRouterPorts ==
  [][(pc # pc' /\ cur.req.type = REQ_TYPE_CREATE_ROUTER_ASSOC) =>
       /\ (pc = "get_ports" =>
             Range(cur'.router_ports) =
               RouterPorts(cur.req.info.router_association.router_id))
       /\ (finished' = Append(finished, <<cur.req.seq, "ok">>) =>
             \A p \in Ports :
               IF p \in Range(cur.router_ports)
               THEN /\ Tagged(p)'
                    /\ ext_ids'[p][OVN_EVPN_VNI_EXT_ID_KEY] =
                         str(cur.req.info.bgpvpn.vni)
                    /\ ext_ids'[p][OVN_EVPN_AS_EXT_ID_KEY] = str(bgp_as)
               ELSE ext_ids'[p] = ext_ids[p])]_vars

\* a create for r1 (two interfaces) has succeeded after the delete that
\* had removed their VNI; the port of r2 is not annotated
C7_Witness ==
  /\ Len(enq) >= 2
  /\ enq[1].type = REQ_TYPE_DELETE_ROUTER_ASSOC
  /\ enq[2].type = REQ_TYPE_CREATE_ROUTER_ASSOC
  /\ enq[2].info.router_association.router_id = "r1"
  /\ HasSucceeded(1)
  /\ HasSucceeded(2)
  /\ {"p1", "p2", "p3"} \subseteq ports
  /\ ext_ids["p1"][OVN_EVPN_VNI_EXT_ID_KEY] = "1001"
  /\ ext_ids["p2"][OVN_EVPN_AS_EXT_ID_KEY] = "64512"
  /\ ~Tagged("p3")
  /\ ~Tagged("p4")

\* C8: a deleteRouterAssociation command that succeeds removes the VNI
\* annotation from every router-owned port of its router (the ports the
\* handler listed): afterwards none of them has the VNI key.
C8_DeleteRemovesVniFromAllRouterPorts ==
  [][(pc # pc' /\ cur.req.type = REQ_TYPE_DELETE_ROUTER_ASSOC) =>
       /\ (pc = "get_ports" =>
             Range(cur'.router_ports) =
               RouterPorts(cur.req.info.router_association.router_id))
       /\ (finished' = Append(finished, <<cur.req.seq, "ok">>) =>
             \A p \in Range(cur.router_ports) :
               OVN_EVPN_VNI_EXT_ID_KEY \notin DOMAIN ext_ids'[p])]_vars

C8_Witness ==
  /\ Len(enq) >= 1
  /\ enq[1].type = REQ_TYPE_DELETE_ROUTER_ASSOC
  /\ HasSucceeded(1)
  /\ Len(finished) = 1
  /\ {"p1", "p2"} \subseteq ports
  /\ OVN_EVPN_VNI_EXT_ID_KEY \notin DOMAIN ext_ids["p1"]
  /\ OVN_EVPN_VNI_EXT_ID_KEY \notin DOMAIN ext_ids["p2"]

DeleteBgpvpnTx(b) == [op |-> "delete_bgpvpn", bgpvpn |-> b, assoc |-> NoAssoc]

IsDeleteOf(req, a) ==
  req.type = REQ_TYPE_DELETE_ROUTER_ASSOC /\ req.info.router_association = a

\* C9: the precommit of the delete of a BGPVPN that has K router
\* associations puts K deleteRouterAssociation requests on the queue, one
\* for each association, and nothing else; so when the delete of the BGPVPN
\* commits, a delete request of each association it removes has been put.
C9_BgpvpnDeleteCascades ==
  [][\A b \in Bgpvpns :
       /\ (DeleteBgpvpnTx(b) \in pending' \ pending =>
             LET new == SubSeq(enq', Len(enq) + 1, Len(enq')) IN
               /\ Len(new) = Cardinality(get_router_assocs(b))
               /\ \A a \in get_router_assocs(b) :
                    \E i \in 1..Len(new) : IsDeleteOf(new[i], a)
               /\ requests' = requests \o new)
       /\ (DeleteBgpvpnTx(b) \in pending \ pending' =>
             \A a \in assocs \ assocs' :
               \E i \in 1..Len(enq) : IsDeleteOf(enq[i], a))]_vars

\* the delete of b1, associated with r1 and r2, is in its transaction
C9_Witness ==
  /\ DeleteBgpvpnTx("b1") \in pending
  /\ Cardinality(get_router_assocs("b1")) = 2
  /\ Len(enq) = 3
  /\ enq[2].type = REQ_TYPE_DELETE_ROUTER_ASSOC
  /\ enq[3].type = REQ_TYPE_DELETE_ROUTER_ASSOC

\* C10: the router-interface-attached callback of a router with no
\* associated BGPVPN is a no-op: it puts no request on the queue and makes
\* no store call (no annotation changes, the worker is not involved).
C10_InterfaceOfUnassociatedRouterIsNoOp ==
  [][\A n \in notifs :
       (/\ n.resource = "router_interface"
        /\ notifs' = notifs \ {n}
        /\ ~\E a \in assocs : a.router_id = n.router_id) =>
         /\ requests' = requests
         /\ enq' = enq
         /\ ext_ids' = ext_ids
         /\ accessors' = accessors
         /\ <<pc, cur>>' = <<pc, cur>>]_vars

\* the interface p3 of r2 was attached and its notification handled while
\* r2 had no association
C10_Witness ==
  /\ "p3" \in ports
  /\ notifs = {}
  /\ enq = <<>>
  /\ ~Tagged("p3")


\* ------------------------------------------------- request validation
\* this step is a call of a precommit validation of BGPVPN requests
BgpvpnCall ==
  api' # api /\ api'.op \in {"create_bgpvpn", "update_bgpvpn"}

\* the attributes the driver does not support, and the error of each
UnsupportedAttributes ==
  {"route_distinguishers", "route_targets", "import_targets",
   "export_targets", "local_pref"}
NotSupportedError(a) ==
  CASE a = "route_distinguishers" -> "BGPVPNRDNotSupported"
    [] a = "route_targets" -> "BGPVPNRTNotSupported"
    [] a = "import_targets" -> "BGPVPNITNotSupported"
    [] a = "export_targets" -> "BGPVPNETNotSupported"
    [] a = "local_pref" -> "BGPVPNLocalPrefNotSupported"

\* the request sets attribute a to a non-empty value: a list with members
\* or a number
NonEmpty(bgpvpn, a) ==
  /\ bgpvpn[a].kind # "none"
  /\ ~(bgpvpn[a].kind = "list" /\ bgpvpn[a].n = 0)

\* the step changes neither the database nor the queue
NothingPersisted ==
  UNCHANGED <<bgpvpns, assocs, pending, ports, ext_ids, requests, enq>>

\* C11: a BGPVPN create or update request that sets one of the five
\* unsupported attributes to a non-empty value is rejected in precommit
\* with the not-supported error of an attribute it sets, and the step
\* changes no persistent state and puts nothing on the queue.
C11_UnsupportedAttributeIsRejected ==
  [][(BgpvpnCall /\ \E a \in UnsupportedAttributes :
                      NonEmpty(api'.bgpvpn, a))
       => /\ \E a \in UnsupportedAttributes :
               /\ NonEmpty(api'.bgpvpn, a)
               /\ api'.error = NotSupportedError(a)
          /\ NothingPersisted]_vars

\* the request sets none of the five unsupported attributes
NoneSet(bgpvpn) == \A a \in UnsupportedAttributes : ~NonEmpty(bgpvpn, a)

\* the transaction of the validated request stays open, to commit
Accepted ==
  /\ api'.error = NoError
  /\ pending' = pending \cup {[op |-> api'.op, bgpvpn |-> api'.bgpvpn.id,
                                assoc |-> NoAssoc]}
  /\ pending' # pending

\* C12 as stated: every request whose type is not l3 is rejected with the
\* type-not-supported error, and an l3 request that sets no unsupported
\* attribute is accepted.
C12_Original ==
  [][BgpvpnCall
       => /\ api'.bgpvpn.type # "l3"
               => api'.error = "BGPVPNTypeNotSupported"
          /\ (api'.bgpvpn.type = "l3" /\ NoneSet(api'.bgpvpn))
               => Accepted]_vars

\* C12: a request whose type is not l3 is rejected and nothing is
\* persisted: with the type-not-supported error when it sets none of the
\* unsupported attributes, and otherwise with that error or with the
\* not-supported error of an attribute it sets; an l3 request that sets no
\* unsupported attribute is accepted.
C12_TypeOtherThanL3IsRejected ==
  [][BgpvpnCall
       => /\ api'.bgpvpn.type # "l3"
               => /\ api'.error # NoError
                  /\ NothingPersisted
                  /\ \/ api'.error = "BGPVPNTypeNotSupported"
                     \/ \E a \in UnsupportedAttributes :
                          /\ NonEmpty(api'.bgpvpn, a)
                          /\ api'.error = NotSupportedError(a)
          /\ (api'.bgpvpn.type # "l3" /\ NoneSet(api'.bgpvpn))
               => api'.error = "BGPVPNTypeNotSupported"
          /\ (api'.bgpvpn.type = "l3" /\ NoneSet(api'.bgpvpn))
               => Accepted]_vars

\* an l2 request that sets no unsupported attribute was rejected for its
\* type and left no transaction behind
C12_Witness ==
  /\ api.op = "update_bgpvpn"
  /\ api.bgpvpn.type = "l2"
  /\ NoneSet(api.bgpvpn)
  /\ api.error = "BGPVPNTypeNotSupported"
  /\ pending = {}

\* C14: creating a network association with an external network is
\* rejected in precommit with BGPVPNExternalNetAssociation, changes no
\* persistent state and puts nothing on the queue; with any other network
\* the hook raises nothing and the transaction goes on.
C14_ExternalNetworkIsRejected ==
  [][(api' # api /\ api'.op = "create_net_assoc")
       => /\ api'.network_id \in ExternalNetworks
               => /\ api'.error = "BGPVPNExternalNetAssociation"
                  /\ NothingPersisted
          /\ api'.network_id \notin ExternalNetworks
               => /\ api'.error = NoError
                  /\ UNCHANGED <<requests, enq>>
                  /\ pending' # pending]_vars

\* an association with the external network n2 was rejected
C14_Witness ==
  /\ api.op = "create_net_assoc"
  /\ api.network_id = "n2"
  /\ api.error = "BGPVPNExternalNetAssociation"
  /\ pending = {}
  /\ enq = <<>>


\* ----------------------------------------------------------- handlers
\* C13: running the createRouterAssociation handler a second time with the
\* same inputs (association, BGPVPN snapshot, ports) changes nothing: the
\* annotations after two executions of its commands are those after one.
C13_CreateIsIdempotent ==
  [][(pc = "execute" /\ pc' # pc
        /\ cur.req.type = REQ_TYPE_CREATE_ROUTER_ASSOC) =>
       LET once == _execute_commands(ext_ids, Commands(cur))
           twice == _execute_commands(once, Commands(cur))
       IN  /\ ext_ids' = once
           /\ twice = once]_vars

\* the second of two create commands of the same association is about to
\* execute on the two ports that the first, which succeeded, had annotated
C13_Witness ==
  /\ pc = "execute"
  /\ cur.req.type = REQ_TYPE_CREATE_ROUTER_ASSOC
  /\ cur.req.seq = 2
  /\ enq[1] = [cur.req EXCEPT !.seq = 1]
  /\ HasSucceeded(1)
  /\ Len(cur.port_ids) = 2
  /\ TxnOk(Commands(cur))
  /\ \A i \in 1..2 : Tagged(cur.port_ids[i])


\* this step handles the notification n
Handles(n) == n \in notifs /\ notifs' = notifs \ {n}

\* this step puts exactly the request req on the queue
PutsOnly(req) ==
  /\ enq' = Append(enq, [req EXCEPT !.seq = Len(enq) + 1])
  /\ requests' = Append(requests, [req EXCEPT !.seq = Len(enq) + 1])

\* C15: handling the created-interface notification of a router that has
\* an associated BGPVPN puts exactly one addRouterInterface request on the
\* queue, with the new port and a BGPVPN associated with the router (the
\* first of the lookup), and touches no annotation; when the handler of
\* such a request succeeds, the port of the request has both annotations,
\* with the VNI of the BGPVPN of the request and the AS number, and the
\* annotations of every other port are unchanged.
C15_InterfaceOfAssociatedRouterIsTagged ==
  [][/\ \A n \in notifs :
          (/\ Handles(n)
           /\ n.resource = "router_interface"
           /\ \E a \in assocs : a.router_id = n.router_id) =>
            /\ \E a \in assocs :
                 /\ a.router_id = n.router_id
                 /\ PutsOnly([type |-> REQ_TYPE_ADD_ROUTER_INTERFACE,
                              seq |-> 0,
                              info |-> [router_association |-> NoAssoc,
                                        bgpvpn |-> [id |-> a.bgpvpn_id,
                                                    vni |-> BgpvpnVni(a.bgpvpn_id)],
                                        port_id |-> n.port_id]])
            /\ ext_ids' = ext_ids
     /\ (/\ pc # pc'
         /\ cur.req.type = REQ_TYPE_ADD_ROUTER_INTERFACE
         /\ finished' = Append(finished, <<cur.req.seq, "ok">>)) =>
          \A p \in Ports :
            IF p = cur.req.info.port_id
            THEN /\ Tagged(p)'
                 /\ ext_ids'[p][OVN_EVPN_VNI_EXT_ID_KEY] =
                      str(cur.req.info.bgpvpn.vni)
                 /\ ext_ids'[p][OVN_EVPN_AS_EXT_ID_KEY] = str(bgp_as)
            ELSE ext_ids'[p] = ext_ids[p]]_vars

\* the interface p3 was added to r2 after the create of the association of
\* r2 had failed: the addRouterInterface request, the second on the queue,
\* succeeded and annotated p3, and the other interface of r2, p6, has no
\* annotation
C15_Witness ==
  /\ Len(enq) = 2
  /\ enq[2].type = REQ_TYPE_ADD_ROUTER_INTERFACE
  /\ enq[2].info.port_id = "p3"
  /\ HasFailed(1)
  /\ HasSucceeded(2)
  /\ {"p3", "p6"} \subseteq ports
  /\ Tagged("p3")
  /\ ~Tagged("p6")


C17_DeleteLeavesTheAsAnnotation ==
  [][(pc # pc' /\ cur.req.type = REQ_TYPE_DELETE_ROUTER_ASSOC) =>
       \A p \in Ports :
         /\ DOMAIN ext_ids[p] \ {OVN_EVPN_VNI_EXT_ID_KEY}
              \subseteq DOMAIN ext_ids'[p]
         /\ DOMAIN ext_ids'[p] \subseteq DOMAIN ext_ids[p]
         /\ \A k \in DOMAIN ext_ids'[p] : ext_ids'[p][k] = ext_ids[p][k]]_vars

\* a create and then a delete of the association of r2 have succeeded: the
\* interface p6 of r2 has the AS annotation and no VNI annotation
C17_Witness ==
  /\ Len(enq) = 2
  /\ enq[1].type = REQ_TYPE_CREATE_ROUTER_ASSOC
  /\ enq[2].type = REQ_TYPE_DELETE_ROUTER_ASSOC
  /\ enq[2].info.router_association = enq[1].info.router_association
  /\ enq[1].info.router_association.router_id = "r2"
  /\ HasSucceeded(1)
  /\ HasSucceeded(2)
  /\ "p6" \in ports
  /\ OVN_EVPN_AS_EXT_ID_KEY \in DOMAIN ext_ids["p6"]
  /\ ext_ids["p6"][OVN_EVPN_AS_EXT_ID_KEY] = str(bgp_as)
  /\ OVN_EVPN_VNI_EXT_ID_KEY \notin DOMAIN ext_ids["p6"]

\* the two keys of the driver
DriverKeys == {OVN_EVPN_VNI_EXT_ID_KEY, OVN_EVPN_AS_EXT_ID_KEY}

\* C18: no step of the worker changes a key of external_ids other than
\* the VNI and AS keys: every other key of every port stays, with its
\* value, and none is added.
C18_OtherKeysAreUntouched ==
  [][pc # pc' =>
       \A p \in Ports :
         /\ DOMAIN ext_ids'[p] \ DriverKeys = DOMAIN ext_ids[p] \ DriverKeys
         /\ \A k \in DOMAIN ext_ids[p] \ DriverKeys :
              ext_ids'[p][k] = ext_ids[p][k]]_vars

\* the interface p3 was annotated by an addRouterInterface command and
\* still has the device-owner key that the ML2 driver had set
C18_Witness ==
  /\ Len(enq) >= 1
  /\ enq[Len(enq)].type = REQ_TYPE_ADD_ROUTER_INTERFACE
  /\ enq[Len(enq)].info.port_id = "p3"
  /\ HasSucceeded(Len(enq))
  /\ Tagged("p3")
  /\ NEUTRON_DEVICE_OWNER_KEY \in DOMAIN ext_ids["p3"]
  /\ ext_ids["p3"][NEUTRON_DEVICE_OWNER_KEY] = DEVICE_OWNER_ROUTER_INTF


\* ------------------------------------------------------------ life cycle
\* the worker has taken the exit request off the queue
ExitDequeued ==
  /\ ExitPos > 0
  /\ \A i \in 1..Len(requests) : requests[i].type # REQ_TYPE_EXIT

\* C19: once the worker has dequeued the exit request it has stopped, for
\* good: the handlers that ever started are those of the requests put
\* before the exit, and every request put behind the exit or after it is
\* still on the queue, unprocessed.
C19_ExitIsTerminal ==
  ExitDequeued =>
    /\ pc = "stopped"
    /\ cur = NoCur
    /\ Len(started) = ExitPos - 1
    /\ \A k \in (ExitPos + 1)..Len(enq) : ~HasStarted(k)
    /\ requests = SubSeq(enq, ExitPos + 1, Len(enq))

\* the worker ran one handler, dequeued the exit and stopped; the request
\* put after the exit is still on the queue
C19_Witness ==
  /\ pc = "stopped"
  /\ Len(enq) = 3
  /\ ExitPos = 2
  /\ HasFinished(1)
  /\ requests = <<enq[3]>>
  /\ sd \in {"done", "error"}

\* C20: the worker runs a handler only while the connection to the store
\* exists: no request put and dequeued before _post_fork_initialize is
\* handled without a connection.
C20_HandlersRunOnlyWithAConnection ==
  pc \in HandlerPcs => conn = "open"


\* ------------------------------------------------ delete against topology
\* a delete request of an association of router r was put on the queue
DeleteWasPut(r) ==
  \E i \in 1..Len(enq) :
    /\ enq[i].type = REQ_TYPE_DELETE_ROUTER_ASSOC
    /\ enq[i].info.router_association.router_id = r

\* C21: once an association of a router has been deleted, the router has
\* no association left, the queue is drained and no handler failed, no
\* port of the router has the VNI annotation, however the delete precommit
\* was interleaved with the interface and gateway notifications of the
\* router.
C21_NoVniLeftAfterDelete ==
  \A r \in Routers :
    (/\ Quiescent
     /\ NoHandlerFailed
     /\ DeleteWasPut(r)
     /\ ~\E a \in assocs : a.router_id = r
     /\ ~\E t \in pending : t.assoc.router_id = r)
      => \A p \in RouterPorts(r) :
           OVN_EVPN_VNI_EXT_ID_KEY \notin DOMAIN ext_ids[p]


\* ------------------------------------------------- callback exceptions
\* C22: a registry callback never lets an exception go on to the
\* notifier: every exception raised in a callback is logged by it, and the
\* step in which a callback fails puts nothing on the queue and leaves the
\* queue, the annotations and the worker as they are. The gateway callback
\* fails, with IndexError, when the BGPVPN it looked up has no association
\* with the router any more at the lookup of the associations.
C22_CallbackErrorsAreLoggedOnly ==
  [][/\ \A e \in cb_log' : e.fate = "logged"
     /\ cb_log' # cb_log =>
          /\ UNCHANGED <<requests, enq, ext_ids, pc, cur, accessors>>
          /\ \E n \in notifs : Handles(n) /\ Cardinality(cb_log' \ cb_log) = 1
     /\ \A n \in notifs :
          (/\ Handles(n)
           /\ n.resource = "router_gateway"
           /\ n.bgpvpn # ""
           /\ ~\E a \in assocs : /\ a.router_id = n.router_id
                                 /\ a.bgpvpn_id = n.bgpvpn) =>
            /\ cb_log' = cb_log \cup {[resource |-> "router_gateway",
                                       router_id |-> n.router_id,
                                       exc |-> "IndexError",
                                       fate |-> "logged"]}
            /\ UNCHANGED <<requests, enq>>]_vars

\* the gateway p5 was attached to r2 and the association of r2 was deleted
\* between the two lookups of the callback: the callback has logged the
\* IndexError and the only requests ever put are the create and the delete
\* of the API calls, both handled
C22_Witness ==
  /\ \E e \in cb_log : e.router_id = "r2" /\ e.exc = "IndexError"
  /\ "p5" \in ports
  /\ notifs = {}
  /\ Len(enq) = 2
  /\ enq[2].type = REQ_TYPE_DELETE_ROUTER_ASSOC
  /\ requests = <<>>
  /\ ~\E a \in assocs : a.router_id = "r2"

====
